---- MODULE Spec2Model ----
(***************************************************************************)
(* A model of package vpk (Valve VPK archives): the writer Create, the     *)
(* reader Open, path lookup (Entry, Paths) and the CRC-verifying stream    *)
(* returned by Entry.Open.                                                 *)
(*                                                                         *)
(* Bytes are the integers 0..255.  A Go string and a []byte are both a     *)
(* sequence of bytes.  A uint32 that is only stored and compared (the CRC, *)
(* the magic number) is kept as its four little-endian bytes, which is     *)
(* also its form on disk; a uint32 that is computed with (Offset, Length)  *)
(* is an integer and is converted by le32/u32 at the file boundary.        *)
(***************************************************************************)
EXTENDS Integers, Sequences, FiniteSets, TLC

--------------------------------------------------------------------------
(* Sequences and bytes *)

Byte == 0..255

Range(s) == {s[i] : i \in 1..Len(s)}

\* s[from..] with from 1-based; the empty sequence when from > Len(s)
Drop(s, n) == SubSeq(s, n + 1, Len(s))
Take(s, n) == SubSeq(s, 1, IF n < Len(s) THEN n ELSE Len(s))

RECURSIVE Concat(_)
Concat(ss) == IF ss = <<>> THEN <<>> ELSE Head(ss) \o Concat(Tail(ss))

\* encoding/binary little-endian integers
le16(n) == <<n % 256, (n \div 256) % 256>>
le32(n) == <<n % 256, (n \div 256) % 256, (n \div 65536) % 256, (n \div 16777216) % 256>>
u16(b) == b[1] + 256 * b[2]
\* a uint32 read from disk whose value is used in arithmetic; the values the
\* model computes with stay below 2^31
u32(b) == b[1] + 256 * b[2] + 65536 * b[3] + 16777216 * b[4]
\* int16(x) of a 16-bit pattern
int16(n) == IF n >= 32768 THEN n - 65536 ELSE n

--------------------------------------------------------------------------
(* hash/crc32, IEEE polynomial, on four little-endian bytes *)

RECURSIVE XorBits(_, _, _)
XorBits(a, b, n) ==
    IF n = 0 THEN 0
    ELSE ((a + b) % 2) + 2 * XorBits(a \div 2, b \div 2, n - 1)

XorNib == [a \in 0..15, b \in 0..15 |-> XorBits(a, b, 4)]

Xor8(a, b) == 16 * XorNib[a \div 16, b \div 16] + XorNib[a % 16, b % 16]

Xor32(x, y) == <<Xor8(x[1], y[1]), Xor8(x[2], y[2]), Xor8(x[3], y[3]), Xor8(x[4], y[4])>>

\* x >> 1
Shr1(x) == <<(x[1] \div 2) + 128 * (x[2] % 2),
             (x[2] \div 2) + 128 * (x[3] % 2),
             (x[3] \div 2) + 128 * (x[4] % 2),
             x[4] \div 2>>

\* x >> 8
Shr8(x) == <<x[2], x[3], x[4], 0>>

\* crc32.IEEE = 0xedb88320
IEEE == <<32, 131, 184, 237>>

RECURSIVE crcTableEntry(_, _)
crcTableEntry(crc, j) ==
    IF j = 0 THEN crc
    ELSE crcTableEntry(IF crc[1] % 2 = 1 THEN Xor32(Shr1(crc), IEEE) ELSE Shr1(crc), j - 1)

\* crc32.IEEETable
IEEETable == [i \in Byte |-> crcTableEntry(<<i, 0, 0, 0>>, 8)]

AllOnes == <<255, 255, 255, 255>>

RECURSIVE crcUpdate(_, _)
crcUpdate(crc, p) ==
    IF p = <<>> THEN crc
    ELSE crcUpdate(Xor32(IEEETable[Xor8(crc[1], Head(p))], Shr8(crc)), Tail(p))

\* hash.Reset(); hash.Write(p); hash.Sum32()
Sum32(p) == Xor32(crcUpdate(AllOnes, p), AllOnes)

--------------------------------------------------------------------------
(* strings, path/filepath (Unix separators) and splitPath *)

\* Go's string comparison x < y: bytewise lexicographic
RECURSIVE StrLess(_, _)
StrLess(x, y) ==
    IF y = <<>> THEN FALSE
    ELSE IF x = <<>> THEN TRUE
    ELSE IF Head(x) # Head(y) THEN Head(x) < Head(y)
    ELSE StrLess(Tail(x), Tail(y))

\* strings.ToLower on ASCII text
ToLower(s) == [i \in 1..Len(s) |-> IF s[i] >= 65 /\ s[i] <= 90 THEN s[i] + 32 ELSE s[i]]

\* the separator '/', the dot '.' and the space that stands for an absent component
Slash == 47
Dot == 46
Space == 32

\* largest i with s[i] = c, 0 when there is none
LastIndex(s, c) ==
    LET I == {i \in 1..Len(s) : s[i] = c}
    IN IF I = {} THEN 0 ELSE CHOOSE i \in I : \A j \in I : j <= i

\* the elements of a path between separators, empty ones included
RECURSIVE Split(_, _)
Split(s, cur) ==
    IF s = <<>> THEN <<cur>>
    ELSE IF Head(s) = Slash THEN <<cur>> \o Split(Tail(s), <<>>)
    ELSE Split(Tail(s), Append(cur, Head(s)))

RECURSIVE Join(_)
Join(elems) ==
    IF elems = <<>> THEN <<>>
    ELSE IF Len(elems) = 1 THEN elems[1]
    ELSE elems[1] \o <<Slash>> \o Join(Tail(elems))

\* the element stack of filepath.Clean: "." and empty elements are dropped,
\* ".." removes the element before it, or is kept at the front of a
\* relative path and dropped at the root
RECURSIVE cleanElems(_, _, _)
cleanElems(elems, out, rooted) ==
    IF elems = <<>> THEN out
    ELSE LET e == Head(elems) IN
         IF e = <<>> \/ e = <<Dot>> THEN cleanElems(Tail(elems), out, rooted)
         ELSE IF e = <<Dot, Dot>> THEN
             IF out # <<>> /\ out[Len(out)] # <<Dot, Dot>>
             THEN cleanElems(Tail(elems), SubSeq(out, 1, Len(out) - 1), rooted)
             ELSE IF rooted THEN cleanElems(Tail(elems), out, rooted)
             ELSE cleanElems(Tail(elems), Append(out, e), rooted)
         ELSE cleanElems(Tail(elems), Append(out, e), rooted)

\* filepath.Clean
Clean(path) ==
    IF path = <<>> THEN <<Dot>>
    ELSE LET rooted == path[1] = Slash
             out == Join(cleanElems(Split(path, <<>>), <<>>, rooted))
         IN IF rooted THEN <<Slash>> \o out
            ELSE IF out = <<>> THEN <<Dot>> ELSE out

\* filepath.Dir
Dir(path) == Clean(SubSeq(path, 1, LastIndex(path, Slash)))

RECURSIVE stripTrailingSlashes(_)
stripTrailingSlashes(path) ==
    IF path # <<>> /\ path[Len(path)] = Slash
    THEN stripTrailingSlashes(SubSeq(path, 1, Len(path) - 1))
    ELSE path

\* filepath.Base
Base(path) ==
    IF path = <<>> THEN <<Dot>>
    ELSE LET p == stripTrailingSlashes(path)
             q == Drop(p, LastIndex(p, Slash))
         IN IF q = <<>> THEN <<Slash>> ELSE q

\* filepath.Ext: from the last dot of the final element, which ends at the
\* last separator of the whole path
Ext(path) ==
    LET d == LastIndex(path, Dot)
    IN IF d > LastIndex(path, Slash) THEN Drop(path, d - 1) ELSE <<>>

\* splitPath: the key (dir, base, ext) of a relative path
splitPath(rel0) ==
    LET rel == ToLower(rel0)
        dir == Dir(rel)
        ext0 == Ext(rel)
        base0 == Base(rel)
        base == SubSeq(base0, 1, Len(base0) - Len(ext0))
        ext == IF ext0 # <<>> THEN Tail(ext0) ELSE ext0
    IN [dir |-> IF dir = <<>> \/ dir = <<Dot>> THEN <<Space>> ELSE dir,
        base |-> IF base = <<>> THEN <<Space>> ELSE base,
        ext |-> IF ext = <<>> THEN <<Space>> ELSE ext]

\* entrysort.less: ext, then dir, then base
less(x, y) ==
    IF StrLess(x.ext, y.ext) THEN TRUE
    ELSE IF StrLess(y.ext, x.ext) THEN FALSE
    ELSE IF StrLess(x.dir, y.dir) THEN TRUE
    ELSE IF StrLess(y.dir, x.dir) THEN FALSE
    ELSE StrLess(x.base, y.base)

\* sort.Sort(entrysort): for fewer than 12 elements the library runs an
\* insertion sort, which moves an element left while it is less than its
\* left neighbour
RECURSIVE insertSorted(_, _)
insertSorted(s, e) ==
    IF s # <<>> /\ less(e, s[Len(s)])
    THEN Append(insertSorted(SubSeq(s, 1, Len(s) - 1), e), s[Len(s)])
    ELSE Append(s, e)

RECURSIVE SortFrom(_, _)
SortFrom(done, rest) ==
    IF rest = <<>> THEN done ELSE SortFrom(insertSorted(done, Head(rest)), Tail(rest))

Sort(s) == SortFrom(<<>>, s)

\* sort.Search(n, f): the binary search of the library, on 0-based i in [lo, hi)
RECURSIVE Search(_, _, _, _)
Search(s, e, lo, hi) ==
    IF lo < hi
    THEN LET h == (lo + hi) \div 2
         IN IF less(s[h + 1], e) THEN Search(s, e, h + 1, hi) ELSE Search(s, e, lo, h)
    ELSE lo

\* entrysort.find: the 1-based position of the entry found, 0 for nil
find(s, key) ==
    LET i == Search(s, key, 0, Len(s))
    IN IF i < Len(s) /\ s[i + 1].dir = key.dir /\ s[i + 1].base = key.base
          /\ s[i + 1].ext = key.ext
       THEN i + 1 ELSE 0

\* one element of VPK.Paths
PathOf(e) ==
    (IF e.dir # <<Space>> THEN e.dir \o <<Slash>> ELSE <<>>)
    \o (IF e.base # <<Space>> THEN e.base ELSE <<>>)
    \o (IF e.ext # <<Space>> THEN <<Dot>> \o e.ext ELSE <<>>)

--------------------------------------------------------------------------
(* the directory entry record and the directory tree *)

\* ArchiveIndex 0x7fff: the data follows the tree in the main file
MainArchive == 32767
\* vpkentry.Terminator 0xffff
TerminatorValue == 65535
\* binary.Size(vpkentry): 4 + 2 + 2 + 4 + 4 + 2
EntrySize == 18
\* magic, version and tree length
HeaderSize == 12
\* the magic number 0x55aa1234 and the version 1, as written
Magic == <<52, 18, 170, 85>>
Version == 1

\* binary.Write(&buf, binary.LittleEndian, e.vpk)
writeEntry(e) ==
    e.CRC \o le16(e.PreloadBytes) \o le16(e.ArchiveIndex % 65536)
    \o le32(e.Offset) \o le32(e.Length) \o le16(e.Terminator)

\* binary.Read(br, binary.LittleEndian, &e) on the 18 bytes b
readEntry(b) ==
    [CRC |-> SubSeq(b, 1, 4),
     PreloadBytes |-> u16(SubSeq(b, 5, 6)),
     ArchiveIndex |-> int16(u16(SubSeq(b, 7, 8))),
     Offset |-> u32(SubSeq(b, 9, 12)),
     Length |-> u32(SubSeq(b, 13, 16)),
     Terminator |-> u16(SubSeq(b, 17, 18))]

\* writeString: the bytes of s and a 0
writeString(s) == Append(s, 0)

\* the zero entrypath appended to the sorted list
NoKey == [dir |-> <<>>, base |-> <<>>, ext |-> <<>>]

RECURSIVE encodeFrom(_, _, _)

\* encodeFrom with a group closed only when the directory changes
encodeFromDirOnly(sorted, i, n) ==
    IF i > n THEN <<>>
    ELSE LET e == sorted[i]
             next == sorted[i + 1]
         IN writeEntry(e.vpk) \o
            (IF e.dir # next.dir
             THEN writeString(<<>>) \o
                  (IF e.ext # next.ext
                   THEN writeString(<<>>) \o writeString(next.ext) \o
                        (IF next.ext = <<>> THEN <<>>
                         ELSE writeString(next.dir) \o writeString(next.base)
                              \o encodeFrom(sorted, i + 1, n))
                   ELSE writeString(next.dir) \o writeString(next.base)
                        \o encodeFrom(sorted, i + 1, n))
             ELSE writeString(next.base) \o encodeFrom(sorted, i + 1, n))

\* the loop of Create over sorted[:len(entries)], from position i: the record
\* of sorted[i], then the strings that close its groups and open those of
\* sorted[i+1]
encodeFrom(sorted, i, n) ==
    IF i > n THEN <<>>
    ELSE LET e == sorted[i]
             next == sorted[i + 1]
         IN writeEntry(e.vpk) \o
            (IF e.dir # next.dir \/ e.ext # next.ext
             THEN writeString(<<>>) \o
                  (IF e.ext # next.ext
                   THEN writeString(<<>>) \o writeString(next.ext) \o
                        (IF next.ext = <<>> THEN <<>>
                         ELSE writeString(next.dir) \o writeString(next.base)
                              \o encodeFrom(sorted, i + 1, n))
                   ELSE writeString(next.dir) \o writeString(next.base)
                        \o encodeFrom(sorted, i + 1, n))
             ELSE writeString(next.base) \o encodeFrom(sorted, i + 1, n))

\* the tree buffer Create builds from its entries (in the caller's order)
encodeTree(entries) ==
    LET sorted == Append(Sort(entries), NoKey)
    IN writeString(sorted[1].ext) \o writeString(sorted[1].dir)
       \o writeString(sorted[1].base) \o encodeFrom(sorted, 1, Len(entries))

\* br.ReadString(0) at 0-based position pos of b: the string without its
\* delimiter and the position after it; io.EOF when no 0 follows
ReadString(b, pos) ==
    LET Z == {i \in (pos + 1)..Len(b) : b[i] = 0}
    IN IF Z = {} THEN [err |-> "EOF"]
       ELSE LET z == CHOOSE i \in Z : \A j \in Z : i <= j
            IN [err |-> "nil", s |-> SubSeq(b, pos + 1, z - 1), pos |-> z]

\* io.ReadFull of n bytes at position pos
ReadFull(b, pos, n) ==
    IF pos + n <= Len(b) THEN [err |-> "nil", p |-> SubSeq(b, pos + 1, pos + n), pos |-> pos + n]
    ELSE IF pos >= Len(b) THEN [err |-> "EOF"]
    ELSE [err |-> "UnexpectedEOF"]

RECURSIVE decodeExt(_, _, _)
RECURSIVE decodeDir(_, _, _, _)
RECURSIVE decodeBase(_, _, _, _, _)

\* the innermost loop of Open: base names and their records
decodeBase(b, pos, ext, dir, acc) ==
    LET r == ReadString(b, pos) IN
    IF r.err # "nil" THEN [err |-> r.err]
    ELSE IF r.s = <<>> THEN decodeDir(b, r.pos, ext, acc)
    ELSE LET rec == ReadFull(b, r.pos, EntrySize) IN
         IF rec.err # "nil" THEN [err |-> rec.err]
         ELSE LET e == readEntry(rec.p) IN
              IF e.ArchiveIndex < 0 \/ e.Terminator # TerminatorValue
              THEN [err |-> "InvalidEntry", Dir |-> dir, Base |-> r.s, Ext |-> ext]
              ELSE LET pre == IF e.PreloadBytes # 0
                              THEN ReadFull(b, rec.pos, e.PreloadBytes)
                              ELSE [err |-> "nil", p |-> <<>>, pos |-> rec.pos]
                   IN IF pre.err # "nil" THEN [err |-> pre.err]
                      ELSE decodeBase(b, pre.pos, ext, dir,
                               Append(acc, [dir |-> dir, base |-> r.s, ext |-> ext,
                                            vpk |-> e, pre |-> pre.p]))

\* the middle loop of Open: directories of one extension
decodeDir(b, pos, ext, acc) ==
    LET r == ReadString(b, pos) IN
    IF r.err # "nil" THEN [err |-> r.err]
    ELSE IF r.s = <<>> THEN decodeExt(b, r.pos, acc)
    ELSE decodeBase(b, r.pos, ext, r.s, acc)

\* the outer loop of Open: extensions, until the empty one
decodeExt(b, pos, acc) ==
    LET r == ReadString(b, pos) IN
    IF r.err # "nil" THEN [err |-> r.err]
    ELSE IF r.s = <<>> THEN [err |-> "nil", entries |-> acc]
    ELSE decodeDir(b, r.pos, r.s, acc)

\* the entries Open appends while it parses the bytes b that follow the header
decodeTree(b) == decodeExt(b, 0, <<>>)

\* OpenBytes without the final sort.Sort
OpenBytesNoSort(b) ==
    LET magic == ReadFull(b, 0, 4) IN
    IF magic.err # "nil" THEN [err |-> magic.err]
    ELSE IF magic.p # Magic THEN [err |-> "InvalidMagic"]
    ELSE LET version == ReadFull(b, 4, 4) IN
    IF version.err # "nil" THEN [err |-> version.err]
    ELSE IF version.p # le32(Version) THEN [err |-> "UnsupportedVersion", version |-> version.p]
    ELSE LET treeLength == ReadFull(b, 8, 4) IN
    IF treeLength.err # "nil" THEN [err |-> treeLength.err]
    ELSE LET t == decodeTree(Drop(b, HeaderSize)) IN
    IF t.err # "nil" THEN t
    ELSE [err |-> "nil", version |-> version.p, treeLength |-> u32(treeLength.p),
          entries |-> t.entries]

\* OpenBytes without the comparison of the version
OpenBytesAnyVersion(b) ==
    LET magic == ReadFull(b, 0, 4) IN
    IF magic.err # "nil" THEN [err |-> magic.err]
    ELSE IF magic.p # Magic THEN [err |-> "InvalidMagic"]
    ELSE LET version == ReadFull(b, 4, 4) IN
    IF version.err # "nil" THEN [err |-> version.err]
    ELSE LET treeLength == ReadFull(b, 8, 4) IN
    IF treeLength.err # "nil" THEN [err |-> treeLength.err]
    ELSE LET t == decodeTree(Drop(b, HeaderSize)) IN
    IF t.err # "nil" THEN t
    ELSE [err |-> "nil", version |-> version.p, treeLength |-> u32(treeLength.p),
          entries |-> Sort(t.entries)]

\* Open on the bytes of the main file: the container, or the error
OpenBytes(b) ==
    LET magic == ReadFull(b, 0, 4) IN
    IF magic.err # "nil" THEN [err |-> magic.err]
    ELSE IF magic.p # Magic THEN [err |-> "InvalidMagic"]
    ELSE LET version == ReadFull(b, 4, 4) IN
    IF version.err # "nil" THEN [err |-> version.err]
    ELSE IF version.p # le32(Version) THEN [err |-> "UnsupportedVersion", version |-> version.p]
    ELSE LET treeLength == ReadFull(b, 8, 4) IN
    IF treeLength.err # "nil" THEN [err |-> treeLength.err]
    ELSE LET t == decodeTree(Drop(b, HeaderSize)) IN
    IF t.err # "nil" THEN t
    ELSE [err |-> "nil", version |-> version.p, treeLength |-> u32(treeLength.p),
          entries |-> Sort(t.entries)]

--------------------------------------------------------------------------
(* the inputs of the model *)

\* the longest list of logical files, the longest file, the largest ceiling,
\* and the longest list of files of one length
MaxFiles == 3
MaxLen == 2
MaxCeil == 3
MaxEqual == 4

\* relative paths of logical files: "a.u", "d/a.t", "b.t", "A.T", "a.t", "c"
\* (the first three are listed in the reverse of the tree order; "A.T" and
\* "a.t" have the same key)
Rels == << <<97, 46, 117>>, <<100, 47, 97, 46, 116>>, <<98, 46, 116>>,
           <<65, 46, 84>>, <<97, 46, 116>>, <<99>> >>

\* the n bytes of the j-th logical file of a list; files at different
\* positions differ in every byte
DataOf(j, n) == [x \in 1..n |-> 16 * j + x]

\* lists of files with the first paths of Rels, every combination of
\* lengths, and every ceiling (-1: unbounded)
SplitInputs ==
    UNION {{[contents |-> [j \in 1..n |-> [rel |-> Rels[j], data |-> DataOf(j, sz[j])]],
             maxSize |-> m] : sz \in [1..n -> 0..MaxLen], m \in (-1)..MaxCeil}
           : n \in 0..MaxFiles}

\* the list of the spec's scenario: three 3-byte files
ThreeByThree == [j \in 1..3 |-> [rel |-> Rels[j], data |-> DataOf(j, 3)]]

\* lists with every sequence of different paths of Rels (so "A.T" and "a.t"
\* may both occur), lengths 1, 2, 0, 1, ... by position, unbounded and with
\* ceiling 2
PathInputs ==
    UNION {{[contents |-> [j \in 1..n |-> [rel |-> Rels[r[j]], data |-> DataOf(j, j % 3)]],
             maxSize |-> m]
            : r \in {q \in [1..n -> 1..Len(Rels)] :
                        \A x, y \in 1..n : x # y => q[x] # q[y]},
              m \in {-1, 2}}
           : n \in 1..MaxFiles}

\* "z.t", "y.t", "x.t", ...: distinct keys, in the reverse of the tree order
EqualRel(j) == <<123 - j, Dot, 116>>

\* lists of files of one length s, with every ceiling from s up
EqualInputs ==
    UNION {{[contents |-> [j \in 1..n |-> [rel |-> EqualRel(j), data |-> DataOf(j, s)]],
             maxSize |-> c] : n \in 1..MaxEqual}
           : <<s, c>> \in {sc \in (0..MaxLen) \X (0..MaxCeil) : sc[1] <= sc[2]}}

\* names with several dots or a trailing dot: "a.", "a.b.t", "a.b.", "a.."
DotRels == << <<97, 46>>, <<97, 46, 98, 46, 116>>, <<97, 46, 98, 46>>, <<97, 46, 46>> >>

\* one file of one byte with each of these names
DotInputs ==
    {[contents |-> <<[rel |-> DotRels[r], data |-> DataOf(1, 1)]>>, maxSize |-> m]
        : r \in 1..Len(DotRels), m \in {-1, 1}}

Inputs == SplitInputs \cup PathInputs \cup EqualInputs \cup DotInputs
          \cup {[contents |-> ThreeByThree, maxSize |-> m] : m \in {-1, 3, 4}}

\* the file system: the main file, when it exists, and the numbered archives
\* that exist
FreshDisk == [mainExists |-> FALSE, main |-> <<>>, arch |-> <<>>]

--------------------------------------------------------------------------
(* the state *)

VARIABLES
    pc,        \* the position of Create: "idle" before the call, "done" after it
    contents,  \* Create's argument: the logical files, each with its path and data
    maxSize,   \* Create's argument: the ceiling, negative for unbounded
    k,         \* the position of the running loop in contents / entries
    archive,   \* Create's local archive (int16)
    offset,    \* Create's local offset (uint32)
    length,    \* the byte count io.Copy returned for the current source
    hash,      \* the CRC of the bytes the current source delivered
    entries,   \* Create's entries, in the caller's order
    buf,       \* the tree buffer
    srcOpen,   \* the source streams that are open (positions in contents)
    f,         \* TRUE while the main file handle is open
    w,         \* the bytes held by the bufio.Writer on the main file
    a,         \* the archive handle of the payload loop: its index, -1 for nil
    i,         \* the index variable of the payload loop
    handles,   \* the indices of the archive handles that are open
    disk,      \* the files
    err,       \* Create's result
    log,       \* what Create did to its collaborators, in order
    vpk,       \* the result of Open
    stream     \* the stream of Entry.Open

vars == <<pc, contents, maxSize, k, archive, offset, length, hash, entries, buf,
          srcOpen, f, w, a, i, handles, disk, err, log, vpk, stream>>

createVars == <<contents, maxSize, k, archive, offset, length, hash, entries, buf,
                srcOpen, f, w, a, i, handles, err, log>>

NoStream == [state |-> "none"]
Unopened == [err |-> "unopened"]

--------------------------------------------------------------------------
(* Create *)

\* x does not fit a uint32: x != int64(uint32(x)), for x >= 0
TooBig(x) == x \div 65536 >= 65536

\* archive++ on an int16
inc16(x) == IF x = 32767 THEN -32768 ELSE x + 1

\* NewEntry without the running offset
NewEntryZeroOffset(c) ==
    splitPath(c.rel) @@
    [ent |-> k,
     vpk |-> [CRC |-> hash, PreloadBytes |-> 0, ArchiveIndex |-> archive,
              Offset |-> 0, Length |-> length, Terminator |-> TerminatorValue]]

\* the record of the file hashed last: the index and offset current before it
NewEntry(c) ==
    splitPath(c.rel) @@
    [ent |-> k,
     vpk |-> [CRC |-> hash, PreloadBytes |-> 0, ArchiveIndex |-> archive,
              Offset |-> offset, Length |-> length, Terminator |-> TerminatorValue]]

\* NextOffset without the reset
NextOffsetNoReset(off, len) == off + len

\* offset after the file: offset += length, reset when it reaches the ceiling
NextOffset(off, len) ==
    IF maxSize >= 0 /\ off + len >= maxSize THEN 0 ELSE off + len

\* NextArchive with the ceiling exceeded rather than reached
NextArchiveStrict(arc, off, len) ==
    IF maxSize >= 0 /\ off + len > maxSize THEN inc16(arc) ELSE arc

\* archive after the file: incremented when the offset reached the ceiling
NextArchive(arc, off, len) ==
    IF maxSize >= 0 /\ off + len >= maxSize THEN inc16(arc) ELSE arc

\* Fail with the deferred calls set up before the main file is opened
FailViaDeferred(e) ==
    /\ err' = e
    /\ pc' = "flush"

\* Create returns e before it has opened the main file
Fail(e) ==
    /\ err' = e
    /\ pc' = "done"

\* Create returns e after it has opened the main file: the deferred calls run
FailDeferred(e) ==
    /\ err' = e
    /\ pc' = "flush"

\* the call, with its arguments, on a directory that holds no archive
CreateCall ==
    /\ pc = "idle"
    /\ disk = FreshDisk
    /\ vpk = Unopened
    /\ \E in \in Inputs :
        /\ contents' = in.contents
        /\ maxSize' = in.maxSize
        /\ archive' = IF in.maxSize < 0 THEN MainArchive ELSE 0
        /\ pc' = IF in.contents = <<>> THEN "tree" ELSE "hashOpen"
    /\ offset' = 0
    /\ k' = 1
    /\ UNCHANGED <<length, hash, entries, buf, srcOpen, f, w, a, i, handles, disk,
                   err, log, vpk, stream>>

\* r, err := c.Open() of the hashing loop
HashOpen ==
    /\ pc = "hashOpen"
    /\ \E ok \in BOOLEAN :
        IF ok
        THEN /\ srcOpen' = srcOpen \cup {k}
             /\ log' = Append(log, <<"open", k>>)
             /\ pc' = "hashCopy"
             /\ err' = err
        ELSE /\ Fail("SourceOpen")
             /\ UNCHANGED <<srcOpen, log>>
    /\ UNCHANGED <<contents, maxSize, k, archive, offset, length, hash, entries, buf,
                   f, w, a, i, handles, disk, vpk, stream>>

\* hash.Reset(); length, err := io.Copy(hash, r), and r.Close() on an error
HashCopy ==
    /\ pc = "hashCopy"
    /\ \E ok \in BOOLEAN :
        IF ok
        THEN /\ length' = Len(contents[k].data)
             /\ hash' = Sum32(contents[k].data)
             /\ pc' = "hashClose"
             /\ UNCHANGED <<srcOpen, log, err>>
        ELSE /\ srcOpen' = srcOpen \ {k}
             /\ log' = Append(log, <<"close", k>>)
             /\ Fail("SourceRead")
             /\ UNCHANGED <<length, hash>>
    /\ UNCHANGED <<contents, maxSize, k, archive, offset, entries, buf,
                   f, w, a, i, handles, disk, vpk, stream>>

\* err = r.Close(), the length checks, the entry and the next index and offset
HashClose ==
    /\ pc = "hashClose"
    /\ srcOpen' = srcOpen \ {k}
    /\ log' = Append(log, <<"close", k>>)
    /\ \E ok \in BOOLEAN :
        IF ~ok
        THEN /\ Fail("SourceClose")
             /\ UNCHANGED <<k, archive, offset, entries>>
        ELSE IF TooBig(length) \/ TooBig(offset + length)
        THEN /\ Fail("FileTooBig")
             /\ UNCHANGED <<k, archive, offset, entries>>
        ELSE /\ entries' = Append(entries, NewEntry(contents[k]))
             /\ offset' = NextOffset(offset, length)
             /\ archive' = NextArchive(archive, offset, length)
             /\ k' = k + 1
             /\ pc' = IF k = Len(contents) THEN "tree" ELSE "hashOpen"
             /\ err' = err
    /\ UNCHANGED <<contents, maxSize, length, hash, buf, f, w, a, i, handles, disk,
                   vpk, stream>>

\* the sorted copy and the tree buffer
BuildTree ==
    /\ pc = "tree"
    /\ LET b == encodeTree(entries) IN
       IF TooBig(Len(b))
       THEN /\ Fail("FileTooBig")
            /\ UNCHANGED <<buf, log>>
       ELSE /\ buf' = b
            /\ log' = Append(log, <<"tree", 0>>)
            /\ pc' = "main"
            /\ err' = err
    /\ UNCHANGED <<contents, maxSize, k, archive, offset, length, hash, entries,
                   srcOpen, f, w, a, i, handles, disk, vpk, stream>>

\* f, err := c.Main(): the file is created empty; the deferred calls are set up
OpenMain ==
    /\ pc = "main"
    /\ \E ok \in BOOLEAN :
        IF ok
        THEN /\ f' = TRUE
             /\ disk' = [disk EXCEPT !.mainExists = TRUE, !.main = <<>>]
             /\ log' = Append(log, <<"main", 0>>)
             /\ pc' = "header"
             /\ err' = err
        ELSE /\ Fail("MainOpen")
             /\ UNCHANGED <<f, disk, log>>
    /\ UNCHANGED <<contents, maxSize, k, archive, offset, length, hash, entries, buf,
                   srcOpen, w, a, i, handles, vpk, stream>>

\* magic, version, tree length and the tree, into the bufio.Writer (which
\* holds up to 4096 bytes and so reports no error before it is flushed)
WriteHeader ==
    /\ pc = "header"
    /\ w' = w \o Magic \o le32(Version) \o le32(Len(buf)) \o buf
    /\ log' = Append(log, <<"header", 0>>)
    /\ k' = 1
    /\ pc' = "copy"
    /\ UNCHANGED <<contents, maxSize, archive, offset, length, hash, entries, buf,
                   srcOpen, f, a, i, handles, disk, err, vpk, stream>>

\* what a source delivers when it is opened again: the same bytes, or, for a
\* source that breaks its contract, one byte less or a changed first byte
Reread(d) ==
    {d} \cup (IF d = <<>> THEN {}
              ELSE {SubSeq(d, 1, Len(d) - 1), [d EXCEPT ![1] = Xor8(@, 1)]})

Bounded == maxSize >= 0

\* the writer copyFile is given: the archive a, or the bufio.Writer
WriteOut(bytes) ==
    IF Bounded
    THEN /\ disk' = [disk EXCEPT !.arch[a] = @ \o bytes]
         /\ w' = w
    ELSE /\ w' = w \o bytes
         /\ disk' = disk

\* the head of the payload loop once every entry is written: Create returns
CopyLoopEnd ==
    /\ pc = "copy"
    /\ k > Len(entries)
    /\ pc' = "flush"
    /\ UNCHANGED <<contents, maxSize, k, archive, offset, length, hash, entries, buf,
                   srcOpen, f, w, a, i, handles, disk, err, log, vpk, stream>>

\* ArchiveClose that drops the handle without closing it
ArchiveCloseLeak ==
    /\ pc = "copy"
    /\ k <= Len(entries)
    /\ Bounded
    /\ i # entries[k].vpk.ArchiveIndex
    /\ a # -1
    /\ a' = -1
    /\ i' = entries[k].vpk.ArchiveIndex
    /\ UNCHANGED <<pc, contents, maxSize, k, archive, offset, length, hash, entries, buf,
                   srcOpen, f, w, handles, disk, err, log, vpk, stream>>

\* bounded mode, i != e.vpk.ArchiveIndex with an archive open: a.Close()
ArchiveClose ==
    /\ pc = "copy"
    /\ k <= Len(entries)
    /\ Bounded
    /\ i # entries[k].vpk.ArchiveIndex
    /\ a # -1
    /\ handles' = handles \ {a}
    /\ log' = Append(log, <<"archiveClose", a>>)
    /\ \E ok \in BOOLEAN :
        IF ok
        THEN /\ a' = -1
             /\ i' = entries[k].vpk.ArchiveIndex
             /\ UNCHANGED <<pc, err>>
        ELSE /\ FailDeferred("ArchiveClose")
             /\ UNCHANGED <<a, i>>
    /\ UNCHANGED <<contents, maxSize, k, archive, offset, length, hash, entries, buf,
                   srcOpen, f, w, disk, vpk, stream>>

\* bounded mode with no archive open: i = e.vpk.ArchiveIndex; a, err = c.Archive(i)
ArchiveOpen ==
    /\ pc = "copy"
    /\ k <= Len(entries)
    /\ Bounded
    /\ a = -1
    /\ LET idx == entries[k].vpk.ArchiveIndex IN
       /\ i' = idx
       /\ \E ok \in BOOLEAN :
           IF ok
           THEN /\ a' = idx
                /\ handles' = handles \cup {idx}
                /\ disk' = [disk EXCEPT !.arch = (idx :> <<>>) @@ @]
                /\ log' = Append(log, <<"archiveOpen", idx>>)
                /\ UNCHANGED <<pc, err>>
           ELSE /\ FailDeferred("ArchiveOpen")
                /\ UNCHANGED <<a, handles, disk, log>>
    /\ UNCHANGED <<contents, maxSize, k, archive, offset, length, hash, entries, buf,
                   srcOpen, f, w, vpk, stream>>

\* copyFile: r, err := e.ent.Open(), with the writer of the entry ready
CopyOpen ==
    /\ pc = "copy"
    /\ k <= Len(entries)
    /\ Bounded => (a # -1 /\ i = entries[k].vpk.ArchiveIndex)
    /\ \E ok \in BOOLEAN :
        IF ok
        THEN /\ srcOpen' = srcOpen \cup {entries[k].ent}
             /\ log' = Append(log, <<"reopen", entries[k].ent>>)
             /\ pc' = "copyData"
             /\ err' = err
        ELSE /\ FailDeferred("SourceOpen")
             /\ UNCHANGED <<srcOpen, log>>
    /\ UNCHANGED <<contents, maxSize, k, archive, offset, length, hash, entries, buf,
                   f, w, a, i, handles, disk, vpk, stream>>

\* copyFile: length, err := io.Copy(w, r) through the crcReader, and the
\* comparison of length with the recorded Length
CopyData ==
    /\ pc = "copyData"
    /\ LET e == entries[k]
           data == contents[e.ent].data
       IN \/ \E d \in Reread(data) :
               /\ WriteOut(d)
               /\ hash' = Sum32(d)
               /\ length' = Len(d)
               /\ IF Len(d) # e.vpk.Length
                  THEN /\ srcOpen' = srcOpen \ {e.ent}
                       /\ log' = Append(Append(log, <<"copy", e.ent>>), <<"reclose", e.ent>>)
                       /\ FailDeferred("UnexpectedEOF")
                  ELSE /\ log' = Append(log, <<"copy", e.ent>>)
                       /\ pc' = "copyClose"
                       /\ UNCHANGED <<srcOpen, err>>
          \/ \E n \in 0..Len(data) :
               /\ WriteOut(SubSeq(data, 1, n))
               /\ srcOpen' = srcOpen \ {e.ent}
               /\ log' = Append(log, <<"reclose", e.ent>>)
               /\ FailDeferred("CopyError")
               /\ UNCHANGED <<hash, length>>
    /\ UNCHANGED <<contents, maxSize, k, archive, offset, entries, buf,
                   f, a, i, handles, vpk, stream>>

\* copyFile: return r.Close(), the close of the crcReader
CopyClose ==
    /\ pc = "copyClose"
    /\ srcOpen' = srcOpen \ {entries[k].ent}
    /\ log' = Append(log, <<"reclose", entries[k].ent>>)
    /\ \E ok \in BOOLEAN :
        IF ~ok THEN /\ FailDeferred("SourceClose")
                    /\ k' = k
        ELSE IF hash # entries[k].vpk.CRC
        THEN /\ FailDeferred("CRCMismatch")
             /\ k' = k
        ELSE /\ k' = k + 1
             /\ pc' = "copy"
             /\ err' = err
    /\ UNCHANGED <<contents, maxSize, archive, offset, length, hash, entries, buf,
                   f, w, a, i, handles, disk, vpk, stream>>

\* the deferred w.Flush()
Flush ==
    /\ pc = "flush"
    /\ \E ok \in BOOLEAN :
        IF ok
        THEN /\ disk' = [disk EXCEPT !.main = @ \o w]
             /\ w' = <<>>
             /\ err' = err
        ELSE /\ err' = IF err = "nil" THEN "Flush" ELSE err
             /\ UNCHANGED <<disk, w>>
    /\ log' = Append(log, <<"flush", 0>>)
    /\ pc' = "closeMain"
    /\ UNCHANGED <<contents, maxSize, k, archive, offset, length, hash, entries, buf,
                   srcOpen, f, a, i, handles, vpk, stream>>

\* the deferred f.Close()
CloseMain ==
    /\ pc = "closeMain"
    /\ f' = FALSE
    /\ \E ok \in BOOLEAN :
        err' = IF err = "nil" /\ ~ok THEN "MainClose" ELSE err
    /\ log' = Append(log, <<"mainClose", 0>>)
    /\ pc' = "done"
    /\ UNCHANGED <<contents, maxSize, k, archive, offset, length, hash, entries, buf,
                   srcOpen, w, a, i, handles, disk, vpk, stream>>

--------------------------------------------------------------------------
(* Open, Entry, Paths and the stream of Entry.Open *)

\* Open: o.Main() fails when there is no main file, r.Stat() may fail, and
\* the rest is decided by the bytes of the file.  It is called on a
\* directory Create has not touched, or after a Create that returned nil.
OpenVPK ==
    /\ pc \in {"idle", "done"}
    /\ err = "nil"
    /\ vpk = Unopened
    /\ \E statOk \in BOOLEAN :
        vpk' = IF ~disk.mainExists THEN [err |-> "NotExist"]
               ELSE IF ~statOk THEN [err |-> "Stat"]
               ELSE OpenBytes(disk.main)
    /\ UNCHANGED <<pc, createVars, disk, stream>>

\* VPK.Paths
Paths(v) == [j \in 1..Len(v.entries) |-> PathOf(v.entries[j])]

\* VPK.Entry: the position of the entry found (0 for nil) and the
\* vpkFileEntry made of it
Entry(v, rel) ==
    LET pos == find(v.entries, splitPath(rel))
    IN IF pos = 0 THEN [pos |-> 0]
       ELSE [pos |-> pos, l |-> v.treeLength, r |-> rel,
             e |-> v.entries[pos].vpk, p |-> v.entries[pos].pre]

\* io.LimitReader(f, n) on a file positioned at seek: the bytes it can deliver
LimitReader(bytes, seek, n) == Take(Drop(bytes, seek), n)

\* FileEntryOpen with the seek in the main file short of the tree length
FileEntryOpenNoTree(fe) ==
    IF fe.e.Length = 0
    THEN [state |-> "open", pos |-> fe.pos, r |-> fe.r, file |-> "none", crc |-> fe.e.CRC,
          src |-> fe.p, n |-> 0, lastRead |-> "none", fileOpen |-> FALSE]
    ELSE IF fe.e.ArchiveIndex = MainArchive
    THEN IF ~disk.mainExists THEN [state |-> "failed", r |-> fe.r, err |-> "NotExist"]
         ELSE [state |-> "open", pos |-> fe.pos, r |-> fe.r, file |-> "main", crc |-> fe.e.CRC,
               src |-> fe.p \o LimitReader(disk.main, HeaderSize + fe.e.Offset, fe.e.Length),
               n |-> 0, lastRead |-> "none", fileOpen |-> TRUE]
    ELSE IF fe.e.ArchiveIndex \notin DOMAIN disk.arch
    THEN [state |-> "failed", r |-> fe.r, err |-> "NotExist"]
    ELSE [state |-> "open", pos |-> fe.pos, r |-> fe.r, file |-> "archive", crc |-> fe.e.CRC,
          src |-> fe.p \o LimitReader(disk.arch[fe.e.ArchiveIndex], fe.e.Offset,
                                      fe.e.Length),
          n |-> 0, lastRead |-> "none", fileOpen |-> TRUE]

\* vpkFileEntry.Open: the stream, or the error of the Opener
FileEntryOpen(fe) ==
    IF fe.e.Length = 0
    THEN [state |-> "open", pos |-> fe.pos, r |-> fe.r, file |-> "none", crc |-> fe.e.CRC,
          src |-> fe.p, n |-> 0, lastRead |-> "none", fileOpen |-> FALSE]
    ELSE IF fe.e.ArchiveIndex = MainArchive
    THEN IF ~disk.mainExists THEN [state |-> "failed", r |-> fe.r, err |-> "NotExist"]
         ELSE [state |-> "open", pos |-> fe.pos, r |-> fe.r, file |-> "main", crc |-> fe.e.CRC,
               src |-> fe.p \o LimitReader(disk.main, HeaderSize + fe.l + fe.e.Offset,
                                           fe.e.Length),
               n |-> 0, lastRead |-> "none", fileOpen |-> TRUE]
    ELSE IF fe.e.ArchiveIndex \notin DOMAIN disk.arch
    THEN [state |-> "failed", r |-> fe.r, err |-> "NotExist"]
    ELSE [state |-> "open", pos |-> fe.pos, r |-> fe.r, file |-> "archive", crc |-> fe.e.CRC,
          src |-> fe.p \o LimitReader(disk.arch[fe.e.ArchiveIndex], fe.e.Offset,
                                      fe.e.Length),
          n |-> 0, lastRead |-> "none", fileOpen |-> TRUE]

\* the paths a caller looks up: those it wrote and those Paths returns
LookupPaths == Range([j \in 1..Len(contents) |-> contents[j].rel]) \cup Range(Paths(vpk))

\* v.Entry(rel).Open() for an entry that exists
EntryOpen ==
    /\ vpk.err = "nil"
    /\ stream.state # "open"
    /\ \E rel \in LookupPaths :
        LET fe == Entry(vpk, rel) IN
        /\ fe.pos # 0
        /\ stream' = FileEntryOpen(fe)
    /\ UNCHANGED <<pc, createVars, disk, vpk>>

\* readerCloser.Read: the Read of the io.TeeReader, which hashes what it
\* delivers; at the end of the data it returns io.EOF
StreamRead ==
    /\ stream.state = "open"
    /\ IF stream.n < Len(stream.src)
       THEN \E c \in 1..(Len(stream.src) - stream.n) :
               stream' = [stream EXCEPT !.n = @ + c, !.lastRead = "nil"]
       ELSE stream' = [stream EXCEPT !.lastRead = "EOF"]
    /\ UNCHANGED <<pc, createVars, disk, vpk>>

\* crcClose with the two checksums of the error exchanged
crcCloseSwapped(closeErr, read, crc) ==
    IF closeErr # "nil" THEN [err |-> closeErr]
    ELSE LET actual == Sum32(read)
         IN IF actual # crc THEN [err |-> "CRCMismatch", Actual |-> crc, Expected |-> actual]
            ELSE [err |-> "nil"]

\* the close function of crcReader: the error of the wrapped close, else
\* the comparison of the hash of the bytes read with crc
crcClose(closeErr, read, crc) ==
    IF closeErr # "nil" THEN [err |-> closeErr]
    ELSE LET actual == Sum32(read)
         IN IF actual # crc THEN [err |-> "CRCMismatch", Actual |-> actual, Expected |-> crc]
            ELSE [err |-> "nil"]

\* readerCloser.Close: f.Close of the file, or the function that returns nil
\* of an entry without data outside the tree
StreamClose ==
    /\ stream.state = "open"
    /\ \E ok \in BOOLEAN :
        /\ stream.file = "none" => ok
        /\ stream' = [state |-> "closed", pos |-> stream.pos, r |-> stream.r,
                      file |-> stream.file, crc |-> stream.crc, src |-> stream.src,
                      n |-> stream.n, lastRead |-> stream.lastRead, fileOpen |-> FALSE,
                      closeErr |-> IF ok THEN "nil" ELSE "CloseError",
                      result |-> crcClose(IF ok THEN "nil" ELSE "CloseError",
                                          SubSeq(stream.src, 1, stream.n), stream.crc)]
    /\ UNCHANGED <<pc, createVars, disk, vpk>>

--------------------------------------------------------------------------
(* archives that were not written by Create *)

RawEntry(dir, base, ext, crc, pre, arc, off, len, term) ==
    [dir |-> dir, base |-> base, ext |-> ext, pre |-> pre,
     vpk |-> [CRC |-> crc, PreloadBytes |-> Len(pre), ArchiveIndex |-> arc,
              Offset |-> off, Length |-> len, Terminator |-> term]]

\* a tree that lists every entry in groups of its own, in the order given
RECURSIVE RawTree(_)
RawTree(list) ==
    IF list = <<>> THEN <<0>>
    ELSE LET e == Head(list)
         IN writeString(e.ext) \o writeString(e.dir) \o writeString(e.base)
            \o writeEntry(e.vpk) \o e.pre \o <<0, 0>> \o RawTree(Tail(list))

RawMain(magic, version, list, payload) ==
    magic \o version \o le32(Len(RawTree(list))) \o RawTree(list) \o payload

\* the data that follows the tree of a foreign main file, and archive 0
ForeignPayload == <<5, 6, 7>>
ForeignArchive == <<8, 9>>

\* "a.t" in the main file; "d/B.T" (stored in upper case) with one preloaded
\* byte and one byte in archive 0; a second "a.t"; an entry whose CRC is wrong
XMain == RawEntry(<<Space>>, <<97>>, <<116>>, Sum32(<<5, 6>>), <<>>, MainArchive, 0, 2,
                  TerminatorValue)
XPre == RawEntry(<<100>>, <<66>>, <<84>>, Sum32(<<4, 9>>), <<4>>, 0, 1, 1, TerminatorValue)
XDup == RawEntry(<<Space>>, <<97>>, <<116>>, Sum32(<<7>>), <<>>, MainArchive, 2, 1,
                 TerminatorValue)
XBadCrc == RawEntry(<<Space>>, <<98>>, <<116>>, Sum32(<<6>>), <<>>, MainArchive, 0, 1,
                    TerminatorValue)
XOnlyPre == RawEntry(<<100>>, <<97>>, <<116>>, Sum32(<<3, 3>>), <<3, 3>>, 0, 0, 0,
                     TerminatorValue)
XNegative == RawEntry(<<Space>>, <<97>>, <<116>>, Sum32(<<>>), <<>>, -1, 0, 0, TerminatorValue)
XBadTerm == RawEntry(<<Space>>, <<97>>, <<116>>, Sum32(<<>>), <<>>, 0, 0, 0, 65534)

ForeignLists ==
    { <<XMain, XPre>>, <<XPre, XMain>>, <<XMain, XDup>>, <<XMain, XPre, XDup>>,
      <<XBadCrc, XOnlyPre>>, <<XOnlyPre, XMain, XBadCrc>>, <<XMain, XNegative>>,
      <<XBadTerm>>, <<>> }

\* first bytes that are not the magic number: one byte changed, and the
\* bytes of 0x55aa1234 in big-endian order
BadMagics == { <<52, 18, 170, 84>>, <<53, 18, 170, 85>>, <<85, 170, 18, 52>>, <<0, 0, 0, 0>> }
BadVersions == { le32(0), le32(2), <<1, 0, 0, 1>>, <<0, 1, 0, 0>> }

WellFormedMains == {RawMain(Magic, le32(Version), l, ForeignPayload) : l \in ForeignLists}

\* every proper prefix of a main file
Prefixes(m) == {SubSeq(m, 1, n) : n \in 0..(Len(m) - 1)}

ForeignMains ==
    WellFormedMains
    \cup {RawMain(g, v, <<XMain, XPre>>, ForeignPayload)
            : g \in BadMagics, v \in {le32(Version)} \cup BadVersions}
    \cup {RawMain(Magic, v, <<XMain, XPre>>, ForeignPayload) : v \in BadVersions}
    \cup Prefixes(RawMain(Magic, le32(Version), <<XMain, XPre>>, ForeignPayload))
    \cup Prefixes(RawMain(<<52, 18, 170, 84>>, le32(2), <<>>, <<>>))

ForeignDisks ==
    {[mainExists |-> TRUE, main |-> m, arch |-> (0 :> ForeignArchive)] : m \in ForeignMains}

--------------------------------------------------------------------------
(* the specification *)

Init ==
    /\ pc = "idle"
    /\ disk \in {FreshDisk} \cup ForeignDisks
    /\ contents = <<>>
    /\ maxSize = -1
    /\ k = 1
    /\ archive = 0
    /\ offset = 0
    /\ length = 0
    /\ hash = Sum32(<<>>)
    /\ entries = <<>>
    /\ buf = <<>>
    /\ srcOpen = {}
    /\ f = FALSE
    /\ w = <<>>
    /\ a = -1
    /\ i = 0
    /\ handles = {}
    /\ err = "nil"
    /\ log = <<>>
    /\ vpk = Unopened
    /\ stream = NoStream

Next ==
    \/ CreateCall
    \/ HashOpen
    \/ HashCopy
    \/ HashClose
    \/ BuildTree
    \/ OpenMain
    \/ WriteHeader
    \/ CopyLoopEnd
    \/ ArchiveClose
    \/ ArchiveOpen
    \/ CopyOpen
    \/ CopyData
    \/ CopyClose
    \/ Flush
    \/ CloseMain
    \/ OpenVPK
    \/ EntryOpen
    \/ StreamRead
    \/ StreamClose

Spec == Init /\ [][Next]_vars

--------------------------------------------------------------------------
(* the properties *)

\* the logical files have pairwise distinct normalized paths
DistinctKeys ==
    \A x, y \in 1..Len(contents) :
        x # y => splitPath(contents[x].rel) # splitPath(contents[y].rel)

\* Create has returned nil for a list that is not empty
Written == pc = "done" /\ err = "nil" /\ contents # <<>>

Logged(ev) == \E t \in 1..Len(log) : log[t][1] = ev

KeyAndEntry(e) == [dir |-> e.dir, base |-> e.base, ext |-> e.ext, vpk |-> e.vpk]

\* C1: after Create returned nil for files with distinct normalized paths,
\* Open succeeds, every written path has an entry whose stream opens and
\* delivers exactly the bytes of that file, and the Close of a stream read to
\* its end returns nil whenever the close of the file succeeds.
C1RoundTrip ==
    (Written /\ DistinctKeys /\ vpk # Unopened /\ vpk.err # "Stat") =>
        /\ vpk.err = "nil"
        /\ \A j \in 1..Len(contents) :
              LET fe == Entry(vpk, contents[j].rel)
              IN /\ fe.pos # 0
                 /\ FileEntryOpen(fe).state = "open"
                 /\ FileEntryOpen(fe).src = contents[j].data
        /\ stream.state # "failed"
        /\ (stream.state = "closed" /\ stream.n = Len(stream.src)
              /\ stream.closeErr = "nil") => stream.result.err = "nil"

\* three files in two numbered archives, one of them empty; a stream read
\* from an archive to its end and closed
C1Witness ==
    /\ Written /\ DistinctKeys
    /\ maxSize >= 0
    /\ Len(contents) = 3
    /\ \E j \in 1..3 : contents[j].data = <<>>
    /\ \E j \in 1..3 : entries[j].vpk.ArchiveIndex = 1
    /\ stream.state = "closed"
    /\ stream.file = "archive"
    /\ stream.n = Len(stream.src)
    /\ stream.n >= 1
    /\ stream.result.err = "nil"

\* C2: the tree buffer Create builds from entries with distinct keys (it is
\* complete when Create is about to open the main file, and does not change
\* later) is parsed by the loops of Open, without error, into the same
\* (key, record) pairs as the sorted entries, in the same order.
C2Parity ==
    (pc = "main" /\ contents # <<>> /\ DistinctKeys) =>
        LET d == decodeTree(buf)
            x == Sort(entries)
        IN /\ d.err = "nil"
           /\ [j \in 1..Len(d.entries) |-> KeyAndEntry(d.entries[j])]
                = [j \in 1..Len(x) |-> KeyAndEntry(x[j])]

\* three entries given out of order: two in one group, one of another extension
C2Witness ==
    /\ pc = "main" /\ DistinctKeys
    /\ Len(entries) = 3
    /\ entries # Sort(entries)
    /\ \E x, y \in 1..3 : x # y /\ entries[x].ext = entries[y].ext
                           /\ entries[x].dir = entries[y].dir
    /\ \E x, y \in 1..3 : entries[x].ext # entries[y].ext

\* the archive indices recorded so far, in the caller's order
Archives == [j \in 1..Len(entries) |-> entries[j].vpk.ArchiveIndex]

\* bounded mode, every file of the length of the first, which the ceiling admits
EqualRun ==
    /\ Bounded
    /\ contents # <<>>
    /\ \A j \in 1..Len(contents) : Len(contents[j].data) = Len(contents[1].data)
    /\ Len(contents[1].data) <= maxSize

\* C3 as stated: with N files of S bytes under ceiling C >= S, the file at
\* 0-based position i is assigned archive floor(i*S / C).
C3Original ==
    (EqualRun /\ maxSize >= 1) =>
        \A j \in 1..Len(entries) :
            Archives[j] = ((j - 1) * Len(contents[1].data)) \div maxSize

\* C3, amended: every archive receives ceil(C/S) files, so the file at 0-based
\* position i is assigned archive floor(i / ceil(C/S)) when S >= 1; files of
\* length 0 all go to archive 0 under a ceiling C >= 1, and to archive i
\* under the ceiling 0.
C3PerArchive ==
    EqualRun =>
        LET S == Len(contents[1].data)
            C == maxSize
        IN \A j \in 1..Len(entries) :
              Archives[j] = IF S >= 1 THEN (j - 1) \div ((C + S - 1) \div S)
                            ELSE IF C >= 1 THEN 0 ELSE j - 1

\* four files of 2 bytes under ceiling 3: archives 0, 0, 1, 1
C3Witness ==
    /\ EqualRun
    /\ maxSize = 3
    /\ Len(contents[1].data) = 2
    /\ Archives = <<0, 0, 1, 1>>

RECURSIVE SumLen(_, _)
SumLen(files, n) == IF n = 0 THEN 0 ELSE SumLen(files, n - 1) + Len(files[n].data)

\* C4: the j-th entry belongs to the j-th file of the caller and has its
\* length.  In bounded mode the first entry has index 0 and offset 0, and an
\* entry follows one whose offset plus length reached the ceiling with the
\* next index and offset 0, and any other with the same index and that sum as
\* offset; three 3-byte files under ceiling 4 have the indices 0, 0, 1.  In
\* unbounded mode every index is 0x7fff and the offset is the sum of the
\* lengths of the files before.
C4Assignment ==
    /\ \A j \in 1..Len(entries) :
          LET e == entries[j].vpk IN
          /\ entries[j].ent = j
          /\ e.Length = Len(contents[j].data)
          /\ IF maxSize >= 0
             THEN IF j = 1 THEN e.ArchiveIndex = 0 /\ e.Offset = 0
                  ELSE LET p == entries[j - 1].vpk IN
                       IF p.Offset + p.Length >= maxSize
                       THEN e.ArchiveIndex = p.ArchiveIndex + 1 /\ e.Offset = 0
                       ELSE e.ArchiveIndex = p.ArchiveIndex
                            /\ e.Offset = p.Offset + p.Length
             ELSE e.ArchiveIndex = 32767 /\ e.Offset = SumLen(contents, j - 1)
    /\ (contents = ThreeByThree /\ maxSize = 4 /\ Len(entries) = 3)
          => Archives = <<0, 0, 1>>

\* the scenario: ceiling 4 and three 3-byte files, written
C4Witness ==
    /\ Written
    /\ contents = ThreeByThree
    /\ maxSize = 4
    /\ [j \in 1..3 |-> entries[j].vpk.Offset] = <<0, 3, 0>>
    /\ Archives = <<0, 0, 1>>

Key(e) == [dir |-> e.dir, base |-> e.base, ext |-> e.ext]

\* the entries in the order of the tree of the main file
Parsed == decodeTree(Drop(disk.main, HeaderSize)).entries

Count(seq, x) == Cardinality({j \in 1..Len(seq) : seq[j] = x})

\* C5 as stated: after a successful Open the entry list is strictly
\* increasing in the order (extension, directory, base).
C5Original ==
    vpk.err = "nil" =>
        \A j \in 1..(Len(vpk.entries) - 1) : less(vpk.entries[j], vpk.entries[j + 1])

\* C5, amended: after a successful Open the entry list holds every entry of
\* the tree, as often as the tree lists it, in an order that never decreases;
\* it is strictly increasing when the tree lists no key twice.
C5Sorted ==
    vpk.err = "nil" =>
        LET p == Parsed
            q == vpk.entries
        IN /\ \A j \in 1..(Len(q) - 1) : ~less(q[j + 1], q[j])
           /\ Len(q) = Len(p)
           /\ \A j \in 1..Len(p) : Count(q, p[j]) = Count(p, p[j])
           /\ (\A x, y \in 1..Len(p) : x # y => Key(p[x]) # Key(p[y]))
                 => \A j \in 1..(Len(q) - 1) : less(q[j], q[j + 1])

\* a tree that lists its groups out of order and one key twice
C5Witness ==
    /\ vpk.err = "nil"
    /\ Parsed # vpk.entries
    /\ \E j \in 1..(Len(vpk.entries) - 1) : Key(vpk.entries[j]) = Key(vpk.entries[j + 1])

\* C6: Read returns nil or io.EOF, never a CRC error.  Close closes the file;
\* it returns the error of that close, and otherwise compares the CRC of the
\* bytes read so far with the CRC of the entry: ErrCRCMismatch with both
\* values when they differ, nil when they are equal.
C6Deferred ==
    /\ stream.state \in {"open", "closed"} => stream.lastRead \in {"none", "nil", "EOF"}
    /\ stream.state = "closed" =>
          LET actual == Sum32(SubSeq(stream.src, 1, stream.n))
              expected == vpk.entries[stream.pos].vpk.CRC
          IN /\ ~stream.fileOpen
             /\ stream.result =
                   IF stream.closeErr # "nil" THEN [err |-> stream.closeErr]
                   ELSE IF actual # expected
                   THEN [err |-> "CRCMismatch", Actual |-> actual, Expected |-> expected]
                   ELSE [err |-> "nil"]

\* a stream on a file closed after a part of its bytes was read
C6Witness ==
    /\ stream.state = "closed"
    /\ stream.file # "none"
    /\ stream.n > 0
    /\ stream.n < Len(stream.src)
    /\ stream.closeErr = "nil"
    /\ stream.result.err = "CRCMismatch"
    /\ stream.result.Expected = vpk.entries[stream.pos].vpk.CRC

\* C7: when the main file was opened, has four bytes and they are not
\* 0x55aa1234 in little-endian order, Open returns ErrInvalidMagic and nothing
\* else; when they are, and the next four bytes are not the version 1, Open
\* returns ErrUnsupportedVersion with those bytes and nothing else.
C7Guard ==
    (vpk # Unopened /\ vpk.err \notin {"NotExist", "Stat"}) =>
        LET b == disk.main
            magicOk == SubSeq(b, 1, 4) = le32(1437209140)
        IN /\ (Len(b) >= 4 /\ ~magicOk) => vpk = [err |-> "InvalidMagic"]
           /\ (Len(b) >= 8 /\ magicOk /\ SubSeq(b, 5, 8) # <<1, 0, 0, 0>>)
                 => vpk = [err |-> "UnsupportedVersion", version |-> SubSeq(b, 5, 8)]

\* a main file with the magic number and the version 2
C7Witness ==
    /\ vpk.err = "UnsupportedVersion"
    /\ SubSeq(disk.main, 1, 4) = <<52, 18, 170, 85>>
    /\ vpk.version = <<2, 0, 0, 0>>

\* the phase of Create an entry of the log belongs to: hashing, tree
\* building, header writing, payload writing, return
PhaseOf(ev) ==
    CASE ev \in {"open", "close"} -> 1
      [] ev = "tree" -> 2
      [] ev \in {"main", "header"} -> 3
      [] ev \in {"archiveOpen", "archiveClose", "reopen", "copy", "reclose"} -> 4
      [] ev \in {"flush", "mainClose"} -> 5

\* open 1, close 1, ..., open n, close n
HashLog(n) ==
    [t \in 1..(2 * n) |-> IF t % 2 = 1 THEN <<"open", (t + 1) \div 2>> ELSE <<"close", t \div 2>>]

\* C8: what Create does never goes back to an earlier phase.  The tree is
\* built after every file was opened and closed once, in the caller's order;
\* the main file is opened after the tree is built, and no source is opened
\* again and no archive is opened before the header and the tree were
\* written to the main file's writer.  As long as the main file was not
\* opened (so also when Create returned the error of the hashing or of the
\* tree) there is no file, no handle and nothing written.
C8Phases ==
    pc # "idle" =>
        /\ \A t \in 1..(Len(log) - 1) : PhaseOf(log[t][1]) <= PhaseOf(log[t + 1][1])
        /\ Logged("tree") =>
              /\ Len(log) > 2 * Len(contents)
              /\ SubSeq(log, 1, 2 * Len(contents)) = HashLog(Len(contents))
              /\ log[2 * Len(contents) + 1] = <<"tree", 0>>
              /\ Len(entries) = Len(contents)
        /\ Logged("main") => Logged("tree")
        /\ pc = "header" => Logged("main") /\ buf = encodeTree(entries)
        /\ \A t \in 1..Len(log) :
              log[t][1] \in {"reopen", "archiveOpen"} =>
                 \E u \in 1..(t - 1) : log[u][1] = "header"
        /\ (Logged("flush") \/ Logged("mainClose")) => Logged("main")
        /\ ~Logged("main") =>
              disk = FreshDisk /\ ~f /\ w = <<>> /\ handles = {} /\ a = -1
        /\ (pc = "done" /\ ~Logged("tree")) => err # "nil" /\ ~Logged("main")

\* Create has returned the error of closing the second source
C8Witness ==
    /\ pc = "done"
    /\ err = "SourceClose"
    /\ ~Logged("tree")
    /\ Len(entries) = 1
    /\ log = <<<<"open", 1>>, <<"close", 1>>, <<"open", 2>>, <<"close", 2>>>>
    /\ disk = FreshDisk

\* the bytes of the main file after the header and the tree
Payload == Drop(disk.main, HeaderSize + Len(buf))

\* the data of the files of a list of entries, one after the other
DataIn(list) == Concat([j \in 1..Len(list) |-> contents[list[j].ent].data])

\* the files copied, in the order of the copies
Copied == SelectSeq(log, LAMBDA ev : ev[1] = "copy")

\* C9 as stated: in unbounded mode the main file holds, after the tree, the
\* files' bytes in the order of the sorted entries.
C9Original ==
    (Written /\ ~Bounded) => Payload = DataIn(Sort(entries))

\* C9, amended: in unbounded mode the files are copied in the caller's order,
\* and the main file holds header, tree and then the files' bytes in that
\* order, which is the order of the offsets of the entries: the bytes of each
\* file lie at its entry's Offset after the tree.
C9CallerOrder ==
    (Written /\ ~Bounded) =>
        /\ Copied = [j \in 1..Len(contents) |-> <<"copy", j>>]
        /\ disk.main = Magic \o le32(Version) \o le32(Len(buf)) \o buf \o DataIn(entries)
        /\ \A j \in 1..Len(entries) :
              LET e == entries[j].vpk
              IN SubSeq(Payload, e.Offset + 1, e.Offset + e.Length) = contents[j].data

\* an unbounded archive of files given in another order than the tree's
C9Witness ==
    /\ Written /\ ~Bounded
    /\ DistinctKeys
    /\ Len(contents) = 3
    /\ entries # Sort(entries)
    /\ Payload # DataIn(Sort(entries))

\* the position of the last opening or closing of an archive before t
LastArchiveEvent(t) ==
    LET U == {u \in 1..(t - 1) : log[u][1] \in {"archiveOpen", "archiveClose"}}
    IN IF U = {} THEN 0 ELSE CHOOSE u \in U : \A v \in U : v <= u

\* C10: in bounded mode at most one archive handle is open.  An archive is
\* opened with an index larger than every index opened before, after the
\* archives opened before were closed, and the next thing opened is a file
\* assigned to that index; a file is copied while the archive opened last is
\* the one of its entry and is not closed.
C10Protocol ==
    Bounded =>
        /\ Cardinality(handles) <= 1
        /\ \A t \in 1..Len(log) :
              log[t][1] = "archiveOpen" =>
                 /\ \A u \in 1..(t - 1) :
                       log[u][1] = "archiveOpen" =>
                          /\ log[u][2] < log[t][2]
                          /\ \E v \in (u + 1)..(t - 1) : log[v] = <<"archiveClose", log[u][2]>>
                 /\ \E j \in 1..Len(entries) : entries[j].vpk.ArchiveIndex = log[t][2]
                 /\ (t < Len(log) /\ log[t + 1][1] = "reopen")
                       => entries[log[t + 1][2]].vpk.ArchiveIndex = log[t][2]
        /\ \A t \in 1..Len(log) :
              log[t][1] \in {"reopen", "copy"} =>
                 /\ LastArchiveEvent(t) # 0
                 /\ log[LastArchiveEvent(t)]
                       = <<"archiveOpen", entries[log[t][2]].vpk.ArchiveIndex>>

\* three archives written one after the other
C10Witness ==
    /\ Written /\ Bounded
    /\ SelectSeq(log, LAMBDA ev : ev[1] \in {"archiveOpen", "archiveClose"})
          = << <<"archiveOpen", 0>>, <<"archiveClose", 0>>, <<"archiveOpen", 1>>,
               <<"archiveClose", 1>>, <<"archiveOpen", 2>> >>

\* C11: when Create has returned, with nil or with an error, no handle it
\* opened is left open: no source stream of the hashing or of the payload
\* pass, not the main file (closed after the flush of its writer), and no
\* numbered archive, the last one written included.
C11Cleanup ==
    pc = "done" =>
        /\ srcOpen = {}
        /\ ~f
        /\ Logged("mainClose") =>
              \E t \in 1..(Len(log) - 1) :
                 log[t] = <<"flush", 0>> /\ log[t + 1] = <<"mainClose", 0>>
        /\ handles = {}

\* C12: after a successful Open every path of Paths() resolves: Entry of
\* the j-th path is not nil and is the j-th entry of the list.
C12Resolves ==
    vpk.err = "nil" =>
        LET paths == Paths(vpk)
        IN \A j \in 1..Len(paths) : Entry(vpk, paths[j]).pos = j

====
